---- MODULE Spec2Model ----
(***************************************************************************)
(* Indicator engine of crypto-pipeline (src/src/core/transform.py).        *)
(*                                                                         *)
(* A table (polars DataFrame) is a function from column names (the very    *)
(* strings the f-strings of the source build) to columns; a column is a    *)
(* sequence of values; a value is a null, a NaN, an infinity or an exact   *)
(* rational, so that the float operations of the source are modelled by    *)
(* their exact results plus the IEEE-754 special cases of division.        *)
(***************************************************************************)
EXTENDS Integers, Sequences, FiniteSets, TLC

VARIABLES df, sma_default, ema_default, args, result_df, pc, idx, step,
          returned, prev

vars == <<df, sma_default, ema_default, args, result_df, pc, idx, step,
          returned, prev>>

----------------------------------------------------------------------------
(* Bounds of the model.                                                    *)

MaxLen == 3        \* longest series
NumPrices == 2     \* number of distinct close prices
MaxSpread == 1     \* high - close and close - low are 0 or MaxSpread
MaxVolume == 2     \* a constant volume is 0..MaxVolume
MaxPeriod == 3     \* largest window / period / span tried by a single step

----------------------------------------------------------------------------
(* Values: optional floats.                                                *)

Abs(x) == IF x < 0 THEN -x ELSE x

Sign(x) == IF x < 0 THEN -1 ELSE IF x = 0 THEN 0 ELSE 1

RECURSIVE GCD(_, _)
GCD(a, b) == IF b = 0 THEN a ELSE GCD(b, a % b)

Null == [k |-> "null", n |-> 0, d |-> 1]

NaN == [k |-> "nan", n |-> 0, d |-> 1]

\* s = 1: +inf, s = -1: -inf
Inf(s) == [k |-> "inf", n |-> s, d |-> 1]

\* the rational n/d (d # 0) in lowest terms with a positive denominator
Rat(n, d) ==
    LET g == GCD(Abs(n), Abs(d))
        s == IF d < 0 THEN -1 ELSE 1
    IN [k |-> "num", n |-> (s * n) \div g, d |-> (s * d) \div g]

Num(i) == [k |-> "num", n |-> i, d |-> 1]

IsNull(a) == a.k = "null"

IsNum(a) == a.k = "num"

\* the product of two numbers, common factors cancelled before multiplying
RatMul(a, b) ==
    LET g1 == GCD(Abs(a.n), b.d)
        g2 == GCD(Abs(b.n), a.d)
    IN Rat((a.n \div g1) * (b.n \div g2), (a.d \div g2) * (b.d \div g1))

FNeg(a) ==
    CASE a.k = "num" -> [a EXCEPT !.n = -a.n]
      [] a.k = "inf" -> Inf(-a.n)
      [] OTHER -> a

\* a + b on polars Float64 columns: a null operand gives null
FAdd(a, b) ==
    IF IsNull(a) \/ IsNull(b) THEN Null
    ELSE IF a.k = "nan" \/ b.k = "nan" THEN NaN
    ELSE IF a.k = "inf"
         THEN IF b.k = "inf" /\ b.n # a.n THEN NaN ELSE a
    ELSE IF b.k = "inf" THEN b
    ELSE LET g == GCD(a.d, b.d)
         IN Rat(a.n * (b.d \div g) + b.n * (a.d \div g), (a.d \div g) * b.d)

FSub(a, b) == FAdd(a, FNeg(b))

FMul(a, b) ==
    IF IsNull(a) \/ IsNull(b) THEN Null
    ELSE IF a.k = "nan" \/ b.k = "nan" THEN NaN
    ELSE IF a.k = "inf" \/ b.k = "inf"
         THEN IF Sign(a.n) * Sign(b.n) = 0 THEN NaN
              ELSE Inf(Sign(a.n) * Sign(b.n))
    ELSE RatMul(a, b)

\* a / b, true division in Float64: x/0 is +-inf, 0/0 is NaN
FDiv(a, b) ==
    IF IsNull(a) \/ IsNull(b) THEN Null
    ELSE IF a.k = "nan" \/ b.k = "nan" THEN NaN
    ELSE IF a.k = "inf"
         THEN IF b.k = "inf" THEN NaN
              ELSE Inf(IF b.n < 0 THEN -a.n ELSE a.n)
    ELSE IF b.k = "inf" THEN Num(0)
    ELSE IF b.n = 0
         THEN IF a.n = 0 THEN NaN ELSE Inf(Sign(a.n))
    ELSE RatMul(a, Rat(b.d, b.n))

\* a < b for two numbers
NumLt(a, b) == a.n * b.d < b.n * a.d

\* |a|
FAbs(a) ==
    CASE a.k = "num" -> [a EXCEPT !.n = Abs(a.n)]
      [] a.k = "inf" -> Inf(1)
      [] OTHER -> a

\* the larger of two values, a null being skipped (max_horizontal)
FMax(a, b) ==
    IF IsNull(a) THEN b
    ELSE IF IsNull(b) THEN a
    ELSE IF ~IsNum(a) THEN a
    ELSE IF ~IsNum(b) THEN b
    ELSE IF NumLt(a, b) THEN b ELSE a

----------------------------------------------------------------------------
(* Column (polars expression) operations.                                  *)

\* sum of the non-null values of xs[lo..hi]
RECURSIVE SumRange(_, _, _)
SumRange(xs, lo, hi) ==
    IF lo > hi THEN Num(0)
    ELSE LET r == SumRange(xs, lo, hi - 1)
         IN IF IsNull(xs[hi]) THEN r ELSE FAdd(r, xs[hi])

\* first index of the window ending at i
WindowStart(i, w) == IF i - w + 1 < 1 THEN 1 ELSE i - w + 1

\* the observations (non-null values) of the window ending at i
Observed(xs, i, w) == {j \in WindowStart(i, w)..i : ~IsNull(xs[j])}

\* rolling_mean with min_samples = 1: a partial window already has a mean
rolling_mean_partial(xs, w) ==
    [i \in 1..Len(xs) |->
        IF Observed(xs, i, w) = {} THEN Null
        ELSE FDiv(SumRange(xs, WindowStart(i, w), i),
                  Num(Cardinality(Observed(xs, i, w))))]

\* Expr.rolling_mean(window_size = w): min_samples defaults to the window
\* size, so a window with fewer than w observations gives null
rolling_mean(xs, w) ==
    [i \in 1..Len(xs) |->
        IF Cardinality(Observed(xs, i, w)) < w THEN Null
        ELSE FDiv(SumRange(xs, WindowStart(i, w), i),
                  Num(Cardinality(Observed(xs, i, w))))]

\* sum of the squared deviations of xs[lo..hi] from m
RECURSIVE SumSqDev(_, _, _, _)
SumSqDev(xs, lo, hi, m) ==
    IF lo > hi THEN Num(0)
    ELSE LET r == SumSqDev(xs, lo, hi - 1, m)
             e == FSub(xs[hi], m)
         IN IF IsNull(xs[hi]) THEN r ELSE FAdd(r, FMul(e, e))

\* the variance under Expr.rolling_std(window_size = w), ddof = 1 (w >= 2)
rolling_var(xs, w) ==
    [i \in 1..Len(xs) |->
        IF Cardinality(Observed(xs, i, w)) < w THEN Null
        ELSE FDiv(SumSqDev(xs, WindowStart(i, w), i, rolling_mean(xs, w)[i]),
                  Num(w - 1))]

\* mid + coef * sqrt(var), kept symbolic: an exact value when var = 0, and
\* otherwise the surd  n/d + (cn/cd) * sqrt(rn/rd)
Band(mid, var, coef) ==
    IF IsNull(mid) \/ IsNull(var) THEN Null
    ELSE IF ~IsNum(mid) \/ ~IsNum(var) THEN NaN
    ELSE IF var.n = 0 \/ coef.n = 0 THEN mid
    ELSE [k |-> "surd", n |-> mid.n, d |-> mid.d, cn |-> coef.n,
          cd |-> coef.d, rn |-> var.n, rd |-> var.d]

\* Expr.diff(): the first value has no predecessor and is null
diff(xs) ==
    [i \in 1..Len(xs) |-> IF i = 1 THEN Null ELSE FSub(xs[i], xs[i - 1])]

\* Expr.shift(1)
shift(xs) == [i \in 1..Len(xs) |-> IF i = 1 THEN Null ELSE xs[i - 1]]

\* Expr.cum_sum(): a null stays null and is skipped by the running sum
cum_sum(xs) ==
    [i \in 1..Len(xs) |-> IF IsNull(xs[i]) THEN Null ELSE SumRange(xs, 1, i)]

ColSub(xs, ys) == [i \in 1..Len(xs) |-> FSub(xs[i], ys[i])]

ColMul(xs, ys) == [i \in 1..Len(xs) |-> FMul(xs[i], ys[i])]

ColDiv(xs, ys) == [i \in 1..Len(xs) |-> FDiv(xs[i], ys[i])]

\* smoothing factor of ewm_mean(span = p)
Alpha(p) == Rat(2, p + 1)

\* the running state of the exponentially weighted mean after xs[1..t]:
\* the mean so far and the weight carried by it.  new_wt is the weight of a
\* new observation and adjust tells whether the carried weight accumulates.
RECURSIVE EwmState(_, _, _, _, _)
EwmState(xs, t, alpha, new_wt, adjust) ==
    IF t = 0 THEN [mean |-> Null, old_wt |-> Num(1)]
    ELSE LET s == EwmState(xs, t - 1, alpha, new_wt, adjust)
             w == FMul(s.old_wt, FSub(Num(1), alpha))
         IN IF IsNull(s.mean)
            THEN IF IsNull(xs[t]) THEN s ELSE [s EXCEPT !.mean = xs[t]]
            ELSE IF IsNull(xs[t]) THEN [s EXCEPT !.old_wt = w]
            ELSE [mean |-> FDiv(FAdd(FMul(w, s.mean), FMul(new_wt, xs[t])),
                                FAdd(w, new_wt)),
                  old_wt |-> IF adjust THEN FAdd(w, new_wt) ELSE Num(1)]

\* Expr.ewm_mean(span = p) with the defaults of the library: adjust = True,
\* min_samples = 1, ignore_nulls = False
ewm_mean(xs, p) ==
    [t \in 1..Len(xs) |->
        IF IsNull(xs[t]) THEN Null
        ELSE EwmState(xs, t, Alpha(p), Num(1), TRUE).mean]

----------------------------------------------------------------------------
(* Tables (DataFrame) and the result of a call.                            *)

NoTable == [c \in {} |-> <<>>]

\* the call returned the table t
Ok(t) == [ok |-> TRUE, df |-> t, err |-> "", cols |-> {}]

\* the call raised the exception kind, which names the columns cols
Err(kind, cols) == [ok |-> FALSE, df |-> NoTable, err |-> kind, cols |-> cols]

Expr(name, col) == [name |-> name, col |-> col]

ExprNames(exprs) == {exprs[i].name : i \in DOMAIN exprs}

\* DataFrame.with_columns(exprs): a new frame in which a column whose name
\* an expression carries is replaced by it and the other expressions are
\* appended; two expressions with one output name are refused
with_columns(t, exprs) ==
    IF Cardinality(ExprNames(exprs)) # Len(exprs)
    THEN Err("DuplicateError", ExprNames(exprs))
    ELSE Ok([c \in DOMAIN t \cup ExprNames(exprs) |->
                IF c \in ExprNames(exprs)
                THEN (CHOOSE e \in {exprs[i] : i \in DOMAIN exprs} :
                         e.name = c).col
                ELSE t[c]])

\* a window size is handed to the library as an unsigned integer and a span
\* must be at least 1: a negative one raises when the expression is built
ValidPeriod(p) == p >= 1

ColumnNotFound(t, needed) == Err("ColumnNotFoundError", needed \ DOMAIN t)

----------------------------------------------------------------------------
(* The indicator steps.                                                    *)

sma_name(period) == "sma_" \o ToString(period)

add_sma(t, period) ==
    IF ~ValidPeriod(period) THEN Err("InvalidPeriod", {})
    ELSE IF "close" \notin DOMAIN t THEN ColumnNotFound(t, {"close"})
    ELSE with_columns(t,
            <<Expr(sma_name(period), rolling_mean(t["close"], period))>>)

ema_name(period) == "ema_" \o ToString(period)

add_ema(t, period) ==
    IF ~ValidPeriod(period) THEN Err("InvalidPeriod", {})
    ELSE IF "close" \notin DOMAIN t THEN ColumnNotFound(t, {"close"})
    ELSE with_columns(t,
            <<Expr(ema_name(period), ewm_mean(t["close"], period))>>)

rsi_name(period) == "rsi_" \o ToString(period)

\* delta > 0 / delta < 0: a null or NaN delta compares as not true
Positive(v) == v.k \in {"num", "inf"} /\ v.n > 0

Negative(v) == v.k \in {"num", "inf"} /\ v.n < 0

\* pl.when(delta > 0).then(delta).otherwise(0)
gain(delta) ==
    [i \in 1..Len(delta) |-> IF Positive(delta[i]) THEN delta[i] ELSE Num(0)]

\* pl.when(delta < 0).then(-delta).otherwise(0)
loss(delta) ==
    [i \in 1..Len(delta) |->
        IF Negative(delta[i]) THEN FNeg(delta[i]) ELSE Num(0)]

avg_gain(close, period) == rolling_mean(gain(diff(close)), period)

avg_loss(close, period) == rolling_mean(loss(diff(close)), period)

\* 100 - (100 / (1 + avg_gain / avg_loss))
rsi(close, period) ==
    [i \in 1..Len(close) |->
        FSub(Num(100),
             FDiv(Num(100),
                  FAdd(Num(1), FDiv(avg_gain(close, period)[i],
                                    avg_loss(close, period)[i]))))]

add_rsi(t, period) ==
    IF ~ValidPeriod(period) THEN Err("InvalidPeriod", {})
    ELSE IF "close" \notin DOMAIN t THEN ColumnNotFound(t, {"close"})
    ELSE with_columns(t, <<Expr(rsi_name(period), rsi(t["close"], period))>>)

macd_name(short_period, long_period) ==
    "macd_" \o ToString(short_period) \o "_" \o ToString(long_period)

signal_name(signal_period) == "macd_signal_" \o ToString(signal_period)

\* the histogram as signal - macd: the operands swapped
histogram_swapped(t, macd_col, signal_col) ==
    with_columns(t, <<Expr("macd_histogram",
                           ColSub(t[signal_col], t[macd_col]))>>)

\* lines 84-86: the histogram from the two columns of the frame
histogram(t, macd_col, signal_col) ==
    with_columns(t, <<Expr("macd_histogram",
                           ColSub(t[macd_col], t[signal_col]))>>)

\* lines 71-86, on the frame that holds the two EMA columns
macd_of_emas(t, short_period, long_period, signal_period) ==
    LET macd_col == macd_name(short_period, long_period)
        signal_col == signal_name(signal_period)
        df2 == with_columns(t,
                 <<Expr(macd_col, ColSub(t[ema_name(short_period)],
                                         t[ema_name(long_period)]))>>).df
        df3 == with_columns(df2,
                 <<Expr(signal_col, ewm_mean(df2[macd_col], signal_period))>>).df
    IN IF ~ValidPeriod(signal_period) THEN Err("InvalidPeriod", {})
       ELSE histogram(df3, macd_col, signal_col)

add_macd(t, short_period, long_period, signal_period) ==
    IF ~ValidPeriod(short_period) \/ ~ValidPeriod(long_period)
    THEN Err("InvalidPeriod", {})
    ELSE IF "close" \notin DOMAIN t THEN ColumnNotFound(t, {"close"})
    ELSE LET df1 == with_columns(t,
                 <<Expr(ema_name(short_period),
                        ewm_mean(t["close"], short_period)),
                   Expr(ema_name(long_period),
                        ewm_mean(t["close"], long_period))>>)
         IN IF ~df1.ok THEN df1
            ELSE macd_of_emas(df1.df, short_period, long_period, signal_period)

bb_name(part, period) == "bb_" \o part \o "_" \o ToString(period)

add_bollinger_bands(t, period, std_dev) ==
    IF ~ValidPeriod(period) THEN Err("InvalidPeriod", {})
    ELSE IF "close" \notin DOMAIN t THEN ColumnNotFound(t, {"close"})
    ELSE LET mid == rolling_mean(t["close"], period)
             var == rolling_var(t["close"], period)
             band(c) == [i \in 1..Len(mid) |-> Band(mid[i], var[i], Num(c))]
             std == [i \in 1..Len(mid) |->
                        IF IsNull(var[i]) THEN Null
                        ELSE Band(Num(0), var[i], Num(1))]
         IN with_columns(t, <<Expr(bb_name("middle", period), mid),
                              Expr(bb_name("upper", period), band(std_dev)),
                              Expr(bb_name("lower", period), band(-std_dev)),
                              Expr(bb_name("std", period), std)>>)

atr_name(period) == "atr_" \o ToString(period)

\* a true range whose maximum is null as soon as one term is null
true_range_null_first(high, low, close) ==
    [i \in 1..Len(close) |->
        IF i = 1 THEN Null
        ELSE FMax(FMax(FSub(high[i], low[i]),
                       FAbs(FSub(high[i], shift(close)[i]))),
                  FAbs(FSub(low[i], shift(close)[i])))]

\* pl.max_horizontal(tr1, tr2, tr3): nulls are skipped
true_range(high, low, close) ==
    [i \in 1..Len(close) |->
        FMax(FMax(FSub(high[i], low[i]),
                  FAbs(FSub(high[i], shift(close)[i]))),
             FAbs(FSub(low[i], shift(close)[i])))]

add_atr(t, period) ==
    IF ~ValidPeriod(period) THEN Err("InvalidPeriod", {})
    ELSE IF ~({"high", "low", "close"} \subseteq DOMAIN t)
         THEN ColumnNotFound(t, {"high", "low", "close"})
    ELSE with_columns(t,
            <<Expr(atr_name(period),
                   rolling_mean(true_range(t["high"], t["low"], t["close"]),
                                period))>>)

typical_price(high, low, close) ==
    [i \in 1..Len(close) |->
        FDiv(FAdd(FAdd(high[i], low[i]), close[i]), Num(3))]

\* the typical prices summed without their volumes
vwap_unweighted(high, low, close, volume) ==
    ColDiv(cum_sum(typical_price(high, low, close)), cum_sum(volume))

\* cumulative_vp / cumulative_vol
vwap(high, low, close, volume) ==
    ColDiv(cum_sum(ColMul(typical_price(high, low, close), volume)),
           cum_sum(volume))

add_vwap(t) ==
    IF ~({"high", "low", "close", "volume"} \subseteq DOMAIN t)
    THEN ColumnNotFound(t, {"high", "low", "close", "volume"})
    ELSE with_columns(t,
            <<Expr("vwap", vwap(t["high"], t["low"], t["close"], t["volume"]))>>)

----------------------------------------------------------------------------
(* Input tables.                                                           *)

Required == {"date", "open", "high", "low", "close", "volume"}

\* close prices are positive and stay positive below the spread
CloseSet == (MaxSpread + 1)..(MaxSpread + NumPrices)

Closes == UNION {[1..n -> CloseSet] : n \in 1..MaxLen}

Spreads == {0, MaxSpread}

\* a constant volume, or one growing from 0
Volumes(n) ==
    {[i \in 1..n |-> v] : v \in 0..MaxVolume} \cup {[i \in 1..n |-> i - 1]}

NumCol(xs) == [i \in 1..Len(xs) |-> Num(xs[i])]

\* an OHLCV table: low <= open = close <= high
Bars(close, up, dn, volume) ==
    [c \in Required |->
        CASE c = "date" -> [i \in 1..Len(close) |-> Num(i)]
          [] c = "open" -> NumCol(close)
          [] c = "high" -> [i \in 1..Len(close) |-> Num(close[i] + up)]
          [] c = "low" -> [i \in 1..Len(close) |-> Num(close[i] - dn)]
          [] c = "close" -> NumCol(close)
          [] c = "volume" -> NumCol(volume)]

\* the table with more columns: the optional symbol, and the vwap of each
\* bar as a data provider reports it (the bar's own typical price)
WithProviderColumns(t) ==
    [c \in DOMAIN t \cup {"symbol", "vwap"} |->
        CASE c = "symbol" -> [i \in 1..Len(t["close"]) |->
                                 [k |-> "str", n |-> 0, d |-> 1]]
          [] c = "vwap" -> typical_price(t["high"], t["low"], t["close"])
          [] OTHER -> t[c]]

Without(t, col) == [c \in DOMAIN t \ {col} |-> t[c]]

BarTables(closes) ==
    {Bars(close, up, dn, volume) :
        up \in Spreads, dn \in Spreads,
        <<close, volume>> \in
            UNION {{<<c, v>> : v \in Volumes(Len(c))} : c \in closes}}

\* the inputs of a single step
StepTables ==
    BarTables(Closes) \cup {WithProviderColumns(t) : t \in BarTables(Closes)}

\* periods tried: an invalid one and the valid ones
Periods == {-1} \cup 1..MaxPeriod

MacdPeriods == {-1, 1, MaxPeriod}

----------------------------------------------------------------------------
(* State.                                                                  *)

NoStep == [fn |-> "none", a |-> 0, b |-> 0, c |-> 0,
           before |-> NoTable, res |-> Ok(NoTable)]

Step(fn, a, b, c, before, res) ==
    [fn |-> fn, a |-> a, b |-> b, c |-> c, before |-> before, res |-> res]

\* sma_periods: list = [20, 50]
DefaultSmaPeriods == <<20, 50>>

\* ema_periods: list = [12, 26]
DefaultEmaPeriods == <<12, 26>>

DefaultArgs ==
    [sma_omitted |-> TRUE, sma_periods |-> <<>>,
     ema_omitted |-> TRUE, ema_periods |-> <<>>,
     rsi_period |-> 14, macd_short |-> 12, macd_long |-> 26,
     macd_signal |-> 9, bb_period |-> 20, bb_std |-> 2, atr_period |-> 14]

NoCall == [args |-> DefaultArgs, out |-> Ok(NoTable), made |-> FALSE]

\* a single step applied to a table, outside the pipeline
StepInit ==
    /\ df \in StepTables
    /\ sma_default = DefaultSmaPeriods
    /\ ema_default = DefaultEmaPeriods
    /\ args = DefaultArgs
    /\ result_df = NoTable
    /\ pc = "step"
    /\ idx = 0
    /\ step = NoStep
    /\ returned = Ok(NoTable)
    /\ prev = NoCall

Apply(s) ==
    /\ pc = "step"
    /\ step.fn = "none"
    /\ step' = s
    /\ UNCHANGED <<df, sma_default, ema_default, args, result_df, pc, idx,
                   returned, prev>>

ApplySma == \E p \in Periods : Apply(Step("add_sma", p, 0, 0, df, add_sma(df, p)))

ApplyEma == \E p \in Periods : Apply(Step("add_ema", p, 0, 0, df, add_ema(df, p)))

ApplyRsi == \E p \in Periods : Apply(Step("add_rsi", p, 0, 0, df, add_rsi(df, p)))

ApplyMacd ==
    \E s \in MacdPeriods, l \in MacdPeriods, g \in MacdPeriods :
        Apply(Step("add_macd", s, l, g, df, add_macd(df, s, l, g)))

\* a window of 1 is left out: the sample deviation of one value depends on
\* the version of the library
ApplyBollinger ==
    \E p \in Periods \ {1} :
        Apply(Step("add_bollinger_bands", p, 2, 0, df,
                   add_bollinger_bands(df, p, 2)))

ApplyAtr == \E p \in Periods : Apply(Step("add_atr", p, 0, 0, df, add_atr(df, p)))

ApplyVwap == Apply(Step("add_vwap", 0, 0, 0, df, add_vwap(df)))

StepNext ==
    \/ ApplySma
    \/ ApplyEma
    \/ ApplyRsi
    \/ ApplyMacd
    \/ ApplyBollinger
    \/ ApplyAtr
    \/ ApplyVwap

StepSpec == StepInit /\ [][StepNext]_vars

----------------------------------------------------------------------------
(* Properties of the single steps.  Index i of the model is index i - 1   *)
(* of the source.                                                          *)

\* the step fn was applied and returned a table
Applied(fn) == step.fn = fn /\ step.res.ok

\* the integer total of the prices xs[lo..hi]
RECURSIVE Total(_, _, _)
Total(xs, lo, hi) == IF lo > hi THEN 0 ELSE Total(xs, lo, hi - 1) + xs[hi].n

\* v is the number p/q
IsRatio(v, p, q) == IsNum(v) /\ v.n * q = p * v.d

\* C1: add_sma with a positive window w on a table with closes returns a
\* table whose column sma_w
\* is null exactly at the indices below w - 1 (all of them when w exceeds
\* the length) and is elsewhere the arithmetic mean of the last w closes.
C1_SmaWarmupThenMean ==
    (step.fn = "add_sma" /\ step.a >= 1 /\ "close" \in DOMAIN step.before) =>
        /\ step.res.ok
        /\ LET close == step.before["close"]
               sma == step.res.df[sma_name(step.a)]
               w == step.a
           IN /\ Len(sma) = Len(close)
              /\ \A i \in 1..Len(close) :
                    /\ IsNull(sma[i]) <=> i < w
                    /\ i >= w => IsRatio(sma[i], Total(close, i - w + 1, i), w)

\* a window of 2 over three closes that are not all equal: one null, then means
C1_Witness ==
    /\ Applied("add_sma")
    /\ step.a = 2
    /\ Len(step.before["close"]) = 3
    /\ step.before["close"][2] # step.before["close"][3]
    /\ IsNull(step.res.df["sma_2"][1])
    /\ IsNum(step.res.df["sma_2"][3])

\* the seeded recurrence: ema[1] = xs[1], ema[t] = alpha xs[t] + (1 - alpha) ema[t-1]
SeededRecurrence(xs, ema, p) ==
    /\ Len(ema) = Len(xs)
    /\ Len(xs) >= 1 => ema[1] = xs[1]
    /\ \A t \in 2..Len(xs) :
          ema[t] = FAdd(FMul(Alpha(p), xs[t]),
                        FMul(FSub(Num(1), Alpha(p)), ema[t - 1]))

\* C2: the column ema_p of add_ema follows the seeded-at-first-value
\* recurrence with alpha = 2 / (p + 1).
C2_EmaSeededRecurrence ==
    Applied("add_ema") =>
        SeededRecurrence(step.before["close"],
                         step.res.df[ema_name(step.a)], step.a)

\* C3: past the warm-up of add_rsi, a zero average loss with a positive
\* average gain gives exactly 100, and a zero average loss with a zero
\* average gain gives null.
C3_RsiZeroLoss ==
    Applied("add_rsi") =>
        LET close == step.before["close"]
            r == step.res.df[rsi_name(step.a)]
            g == avg_gain(close, step.a)
            l == avg_loss(close, step.a)
        IN \A i \in 1..Len(close) :
              (IsNum(g[i]) /\ IsNum(l[i]) /\ l[i].n = 0) =>
                  /\ g[i].n > 0 => r[i] = Num(100)
                  /\ g[i].n = 0 => IsNull(r[i])

\* C4: rsi_p is null at the indices 0..p-1 and at no other index.
C4_RsiNullThroughPeriod ==
    Applied("add_rsi") =>
        \A i \in 1..Len(step.before["close"]) :
            IsNull(step.res.df[rsi_name(step.a)][i]) <=> i <= step.a

C9_StepKeepsEveryColumn ==
    (step.fn # "none" /\ step.res.ok) =>
        \A c \in DOMAIN step.before :
            c \in DOMAIN step.res.df /\ step.res.df[c] = step.before[c]

Constant(xs) == \A i \in 1..Len(xs) : xs[i] = xs[1]

\* vwap[t] is the simple average of the typical prices up to t
VwapIsRunningMean(t) ==
    LET tp == typical_price(t["high"], t["low"], t["close"])
        sum3(i) == Total(t["high"], 1, i) + Total(t["low"], 1, i)
                   + Total(t["close"], 1, i)
    IN \A i \in 1..Len(tp) : IsRatio(step.res.df["vwap"][i], sum3(i), 3 * i)

\* C10 as stated: for every constant volume, zero included, vwap[t] is the
\* simple average of typical_price[0..t].
C10_UniformVolumeAnyValue ==
    (Applied("add_vwap") /\ Constant(step.before["volume"])) =>
        VwapIsRunningMean(step.before)

\* C10 amended: for every constant positive volume, vwap[t] is the simple
\* average of typical_price[0..t].
C10_UniformPositiveVolume ==
    (/\ Applied("add_vwap")
     /\ Constant(step.before["volume"])
     /\ step.before["volume"][1].n > 0) =>
        VwapIsRunningMean(step.before)

\* a constant volume of 2 over bars whose typical prices differ
C10_Witness ==
    /\ Applied("add_vwap")
    /\ Constant(step.before["volume"])
    /\ step.before["volume"][1] = Num(2)
    /\ Len(step.before["close"]) >= 2
    /\ step.before["close"][1] # step.before["close"][2]
    /\ IsNum(step.res.df["vwap"][2])

----------------------------------------------------------------------------
(* add_all_indicators, one action per statement.                           *)

\* the closes a caller passes: a flat series of full length, or two rising
\* bars.  The exact value of the signal line (an EMA of span 9 over the
\* difference of the EMAs of spans 12 and 26) of a longer series that is
\* not flat has a denominator beyond the integers of the model checker.
PipelineCloses ==
    {[i \in 1..MaxLen |-> b] : b \in CloseSet} \cup {<<b, b + 1>> : b \in CloseSet}

\* the tables a caller passes: high = close + MaxSpread, low = close -
\* MaxSpread and a constant volume; each also with one required column
\* missing, and with the provider's columns
PipelineTables ==
    LET full == {Bars(c, MaxSpread, MaxSpread, [i \in 1..Len(c) |-> MaxVolume]) :
                    c \in PipelineCloses}
    IN full \cup {Without(t, col) : t \in full, col \in Required}
            \cup {WithProviderColumns(t) : t \in full}

ScalarParams ==
    {"rsi_period", "macd_short", "macd_long", "macd_signal", "bb_period",
     "atr_period"}

ListChoices ==
    {<<>>, <<-1>>, <<MaxPeriod>>, <<1, MaxPeriod>>, <<MaxPeriod, -1>>}

\* the calls made: every parameter omitted, or one of them passed
ArgChoices ==
    {DefaultArgs}
    \cup {[DefaultArgs EXCEPT ![f] = p] : f \in ScalarParams, p \in {-1, MaxPeriod}}
    \cup {[DefaultArgs EXCEPT !.sma_omitted = FALSE, !.sma_periods = l] :
             l \in ListChoices}
    \cup {[DefaultArgs EXCEPT !.ema_omitted = FALSE, !.ema_periods = l] :
             l \in ListChoices}

\* the module is loaded and nothing has been called
Init ==
    /\ df \in PipelineTables
    /\ sma_default = DefaultSmaPeriods
    /\ ema_default = DefaultEmaPeriods
    /\ args = DefaultArgs
    /\ result_df = NoTable
    /\ pc = "idle"
    /\ idx = 0
    /\ step = NoStep
    /\ returned = Ok(NoTable)
    /\ prev = NoCall

\* DataFrame.clone(): another frame with the same columns
clone(t) == t

\* the list the parameter is bound to: the shared default when omitted
sma_periods == IF args.sma_omitted THEN sma_default ELSE args.sma_periods

ema_periods == IF args.ema_omitted THEN ema_default ELSE args.ema_periods

\* a loop that takes its periods off the front of the list
periods_after_pop(periods) == Tail(periods)

\* `for period in periods` reads the list and leaves it as it was
periods_after_iteration(periods) == periods

\* result_df = df.clone()
Call ==
    /\ pc = "idle"
    /\ \E a \in ArgChoices : args' = a
    /\ result_df' = clone(df)
    /\ pc' = "sma"
    /\ idx' = 1
    /\ step' = NoStep
    /\ UNCHANGED <<df, sma_default, ema_default, returned, prev>>

\* result_df = add_x(result_df, ...): the assignment when the step returns,
\* the exception leaving add_all_indicators when it raises
Assign(s, next_pc, next_idx) ==
    /\ step' = s
    /\ IF s.res.ok
       THEN /\ result_df' = s.res.df
            /\ pc' = next_pc
            /\ idx' = next_idx
            /\ returned' = IF next_pc = "done" THEN s.res ELSE returned
       ELSE /\ result_df' = result_df
            /\ pc' = "raised"
            /\ idx' = idx
            /\ returned' = s.res
    /\ UNCHANGED <<df, args, prev>>

SmaIteration ==
    /\ pc = "sma"
    /\ idx <= Len(sma_periods)
    /\ Assign(Step("add_sma", sma_periods[idx], 0, 0, result_df,
                   add_sma(result_df, sma_periods[idx])), "sma", idx + 1)
    /\ sma_default' = IF args.sma_omitted
                      THEN periods_after_iteration(sma_default)
                      ELSE sma_default
    /\ UNCHANGED ema_default

SmaLoopEnd ==
    /\ pc = "sma"
    /\ idx > Len(sma_periods)
    /\ pc' = "ema"
    /\ idx' = 1
    /\ UNCHANGED <<df, sma_default, ema_default, args, result_df, step,
                   returned, prev>>

EmaIteration ==
    /\ pc = "ema"
    /\ idx <= Len(ema_periods)
    /\ Assign(Step("add_ema", ema_periods[idx], 0, 0, result_df,
                   add_ema(result_df, ema_periods[idx])), "ema", idx + 1)
    /\ ema_default' = IF args.ema_omitted
                      THEN periods_after_iteration(ema_default)
                      ELSE ema_default
    /\ UNCHANGED sma_default

EmaLoopEnd ==
    /\ pc = "ema"
    /\ idx > Len(ema_periods)
    /\ pc' = "rsi"
    /\ idx' = 0
    /\ UNCHANGED <<df, sma_default, ema_default, args, result_df, step,
                   returned, prev>>

Rsi ==
    /\ pc = "rsi"
    /\ Assign(Step("add_rsi", args.rsi_period, 0, 0, result_df,
                   add_rsi(result_df, args.rsi_period)), "macd", 0)
    /\ UNCHANGED <<sma_default, ema_default>>

Macd ==
    /\ pc = "macd"
    /\ Assign(Step("add_macd", args.macd_short, args.macd_long,
                   args.macd_signal, result_df,
                   add_macd(result_df, args.macd_short, args.macd_long,
                            args.macd_signal)), "bb", 0)
    /\ UNCHANGED <<sma_default, ema_default>>

Bollinger ==
    /\ pc = "bb"
    /\ Assign(Step("add_bollinger_bands", args.bb_period, args.bb_std, 0,
                   result_df,
                   add_bollinger_bands(result_df, args.bb_period, args.bb_std)),
              "atr", 0)
    /\ UNCHANGED <<sma_default, ema_default>>

Atr ==
    /\ pc = "atr"
    /\ Assign(Step("add_atr", args.atr_period, 0, 0, result_df,
                   add_atr(result_df, args.atr_period)), "vwap", 0)
    /\ UNCHANGED <<sma_default, ema_default>>

\* result_df = add_vwap(result_df); return result_df
Vwap ==
    /\ pc = "vwap"
    /\ Assign(Step("add_vwap", 0, 0, 0, result_df, add_vwap(result_df)),
              "done", 0)
    /\ UNCHANGED <<sma_default, ema_default>>

\* the caller has the result (or the exception) and the frame of the call
\* is gone; the caller remembers this call
CallerRemembers ==
    /\ pc \in {"done", "raised"}
    /\ prev' = [args |-> args, out |-> returned, made |-> TRUE]
    /\ pc' = "idle"
    /\ args' = DefaultArgs
    /\ result_df' = NoTable
    /\ idx' = 0
    /\ step' = NoStep
    /\ returned' = Ok(NoTable)
    /\ UNCHANGED <<df, sma_default, ema_default>>

\* the same, the caller keeping an earlier call in mind instead
CallerForgets ==
    /\ pc \in {"done", "raised"}
    /\ prev.made
    /\ pc' = "idle"
    /\ args' = DefaultArgs
    /\ result_df' = NoTable
    /\ idx' = 0
    /\ step' = NoStep
    /\ returned' = Ok(NoTable)
    /\ UNCHANGED <<df, sma_default, ema_default, prev>>

Next ==
    \/ Call
    \/ SmaIteration
    \/ SmaLoopEnd
    \/ EmaIteration
    \/ EmaLoopEnd
    \/ Rsi
    \/ Macd
    \/ Bollinger
    \/ Atr
    \/ Vwap
    \/ CallerRemembers
    \/ CallerForgets

Spec == Init /\ [][Next]_vars

----------------------------------------------------------------------------
(* Properties of add_all_indicators.                                       *)

\* the call is over: it returned or it raised
CallEnded == pc \in {"done", "raised"}

\* no indicator step has added anything to the working copy
NothingComputed == result_df = df

\* the window and period parameters of the call
AllPeriods ==
    {sma_periods[i] : i \in DOMAIN sma_periods}
    \cup {ema_periods[i] : i \in DOMAIN ema_periods}
    \cup {args[f] : f \in ScalarParams}

\* C6: a call (with valid periods) on a table that lacks required columns
\* ends in an error that names the missing columns, raised before any
\* indicator step was computed.
C6_MissingColumnFailsFirst ==
    (/\ CallEnded
     /\ Required \ DOMAIN df # {}
     /\ \A p \in AllPeriods : p >= 1) =>
        /\ pc = "raised"
        /\ returned.err = "ColumnNotFoundError"
        /\ returned.cols = Required \ DOMAIN df
        /\ NothingComputed

\* C7: a call (on a table with every required column) with a non-positive
\* window or period ends in an error raised before any indicator column was
\* computed.
C7_InvalidPeriodFailsFirst ==
    (/\ CallEnded
     /\ Required \subseteq DOMAIN df
     /\ \E p \in AllPeriods : p < 1) =>
        /\ pc = "raised"
        /\ returned.err = "InvalidPeriod"
        /\ NothingComputed

\* C8: no step of a call changes the caller's table or the default period
\* lists, and a call that ends with the arguments of the call the caller
\* remembers ends with the same result, value for value.
C8_CallsArePure ==
    [][/\ df' = df
       /\ sma_default' = sma_default
       /\ ema_default' = ema_default
       /\ (pc' \in {"done", "raised"} /\ prev'.made /\ prev'.args = args') =>
              returned' = prev'.out]_vars

\* a call with every parameter omitted has returned a table with indicator
\* columns, after an earlier call with every parameter omitted
C8_Witness ==
    /\ pc = "done"
    /\ prev.made
    /\ prev.args = DefaultArgs
    /\ args = DefaultArgs
    /\ returned.ok
    /\ sma_name(20) \in DOMAIN returned.df \ DOMAIN df

\* the columns the parameters of the call name
ListedColumns ==
    {sma_name(sma_periods[i]) : i \in DOMAIN sma_periods}
    \cup {ema_name(ema_periods[i]) : i \in DOMAIN ema_periods}
    \cup {bb_name(part, args.bb_period) :
             part \in {"middle", "upper", "lower", "std"}}
    \cup {rsi_name(args.rsi_period),
          macd_name(args.macd_short, args.macd_long),
          signal_name(args.macd_signal), "macd_histogram",
          atr_name(args.atr_period), "vwap"}

\* C11: the columns a returning call adds to a table of the six OHLCV
\* columns are exactly the listed ones: sma_p and ema_p for the periods
\* passed, rsi, macd, signal, histogram, the four bands, atr and vwap; so
\* an ema_p column only for p in ema_periods.
C11_AddedColumnsAreTheListed ==
    (pc = "done" /\ DOMAIN df = Required) =>
        DOMAIN returned.df \ DOMAIN df = ListedColumns

\* the larger of two integers
IntMax(x, y) == IF x >= y THEN x ELSE y

\* the true range of bar i of table t as an integer: high - low on the
\* first bar, the largest of the three distances afterwards
TrueRangeAt(t, i) ==
    LET hl == t["high"][i].n - t["low"][i].n
    IN IF i = 1 THEN hl
       ELSE IntMax(hl, IntMax(Abs(t["high"][i].n - t["close"][i - 1].n),
                              Abs(t["low"][i].n - t["close"][i - 1].n)))

RECURSIVE TrueRangeTotal(_, _, _)
TrueRangeTotal(t, lo, hi) ==
    IF lo > hi THEN 0 ELSE TrueRangeTotal(t, lo, hi - 1) + TrueRangeAt(t, hi)

\* C12: add_atr with a positive period p on a table with high, low and
\* close returns a table whose column atr_p is null exactly at the indices
\* below p - 1 and is elsewhere the mean of the last p true ranges, where
\* the true range of the first bar is high - low and of every later bar the
\* largest of high - low, |high - previous close| and |low - previous close|.
C12_AtrHighLowFallback ==
    (/\ step.fn = "add_atr"
     /\ step.a >= 1
     /\ {"high", "low", "close"} \subseteq DOMAIN step.before) =>
        /\ step.res.ok
        /\ LET t == step.before
               atr == step.res.df[atr_name(step.a)]
               p == step.a
           IN /\ Len(atr) = Len(t["close"])
              /\ \A i \in 1..Len(atr) :
                    /\ IsNull(atr[i]) <=> i < p
                    /\ i >= p =>
                          IsRatio(atr[i], TrueRangeTotal(t, i - p + 1, i), p)

\* a period of 2 over three bars where a later bar's true range is a
\* distance to the previous close, larger than its own high - low
C12_Witness ==
    /\ Applied("add_atr")
    /\ step.a = 2
    /\ {"high", "low", "close"} \subseteq DOMAIN step.before
    /\ Len(step.before["close"]) = 3
    /\ \E i \in 2..3 :
          TrueRangeAt(step.before, i) >
              step.before["high"][i].n - step.before["low"][i].n
    /\ IsNull(step.res.df["atr_2"][1])
    /\ IsNum(step.res.df["atr_2"][2])
    /\ IsNum(step.res.df["atr_2"][3])

====
